---------------------------- MODULE Spec2Model ----------------------------
(***************************************************************************)
(* Model of the BMP obfuscation programs of the repository:                *)
(*   - the bit-level primitives (rotateRight, rotateLeft, bitwiseXOR,      *)
(*     applyXOR, bxor, brotate_left),                                      *)
(*   - the encoder  (P1 = I_O xor I_M, P2 = rotr3(P1), P3 = P2 xor I_M),   *)
(*   - the decoder  (xor, desenmascarar S2 + rotl3, desenmascarar S1 + xor)*)
(*   - the mask text file reader loadSeedMasking, in its four versions,    *)
(*   - the heap of the encoder and of the decoder (new[] / delete[]),      *)
(*   - the program of main.cpp and the bit-operations example program.     *)
(* Buffers are sequences indexed from 1: C index i is TLA+ index i + 1.    *)
(***************************************************************************)
EXTENDS Integers, Sequences, FiniteSets, TLC

VARIABLES
    prim,    \* harness of the scalar primitives: [v0, v, k, ops]
    xbuf,    \* harness of applyXOR: [data0, data, key, n]
    parse,   \* harness of loadSeedMasking: [file, n0, out, called]
    unm,     \* harness of desenmascarar: [img0, img, mask, S, nulls, seed, total, called]
    fs,      \* the working directory: file name -> content or NoFile
    enc,     \* the encoder process
    dec,     \* the decoder process
    demo     \* the demonstration program (main.cpp or the bit-operations example)

vars == <<prim, xbuf, parse, unm, fs, enc, dec, demo>>

\* the values of the parts of the state a specification does not use
IdlePrim == [on |-> FALSE, v0 |-> 0, v |-> 0, k |-> 0, ops |-> <<>>, trail |-> <<>>]

IdleXbuf == [on |-> FALSE, data0 |-> <<>>, data |-> <<>>, key |-> 0, n |-> 0]

IdleParse == [on |-> FALSE, file |-> <<>>, n0 |-> 0, called |-> "", out |-> <<>>]

NoFs == [f \in {} |-> 0]

IdleProc == [pc |-> "off"]

IdleUnm ==
    [on |-> FALSE, img0 |-> <<>>, img |-> <<>>, mask0 |-> <<>>, mask |-> <<>>,
     S0 |-> <<>>, S |-> <<>>, nulls |-> {}, seed |-> 0, total |-> 0, called |-> FALSE]

---------------------------------------------------------------------------
(* Machine arithmetic *)

\* unsigned char has 8 bits
ByteMod == 256

\* int has 32 bits: INT_MAX and INT_MIN
IntMax == 2147483647

IntMin == (-IntMax) - 1

\* An unsigned int is kept as the int with the same 32 bits (its two's
\* complement reading): u in 0 .. 2^31-1 is u itself, u >= 2^31 is u - 2^32.
UIntBits == IntMin .. IntMax

Byte == 0 .. (ByteMod - 1)

Pow2(n) == 2 ^ n

Shl(x, n) == x * Pow2(n)

Shr(x, n) == x \div Pow2(n)

RECURSIVE BitXor(_, _)
BitXor(a, b) ==
    IF a = 0 THEN b
    ELSE IF b = 0 THEN a
    ELSE (((a % 2) + (b % 2)) % 2) + 2 * BitXor(a \div 2, b \div 2)

RECURSIVE BitOr(_, _)
BitOr(a, b) ==
    IF a = 0 THEN b
    ELSE IF b = 0 THEN a
    ELSE (IF a % 2 = 1 \/ b % 2 = 1 THEN 1 ELSE 0) + 2 * BitOr(a \div 2, b \div 2)

RECURSIVE BitAnd(_, _)
BitAnd(a, b) ==
    IF a = 0 \/ b = 0 THEN 0
    ELSE (IF a % 2 = 1 /\ b % 2 = 1 THEN 1 ELSE 0) + 2 * BitAnd(a \div 2, b \div 2)

\* conversion of an int result to unsigned char
ToUChar(x) == x % ByteMod

\* conversion of an int to unsigned int: the same 32 bits
ToUInt(x) == x

\* unsigned subtraction u - m (m a promoted unsigned char), modulo 2^32,
\* on the 32-bit patterns
USub(u, m) ==
    IF u < IntMin + m THEN ((u - IntMin) - m) + IntMax + 1 ELSE u - m

\* u & 0xFF on a 32-bit pattern: the low 8 bits
LowByte(u) == u % ByteMod

---------------------------------------------------------------------------
(* Bit-level primitives *)

bitwiseXOR(a, b) == BitXor(a, b)

rotateRight_NoWrap(byte, n) == ToUChar(Shr(byte, n % 8))

rotateRight(byte, n) ==
    LET m == n % 8
    IN ToUChar(BitOr(Shr(byte, m), Shl(byte, 8 - m)))

rotateLeft_NoWrap(byte, n) == ToUChar(Shl(byte, n % 8))

rotateLeft(byte, n) ==
    LET m == n % 8
    IN ToUChar(BitOr(Shl(byte, m), Shr(byte, 8 - m)))

\* return byte << n; converted to unsigned char
shiftLeftOp(byte, n) == ToUChar(Shl(byte, n))

\* return byte >> n;
shiftRightOp(byte, n) == ToUChar(Shr(byte, n))

bxor_Or(a, b) == BitOr(a, b)

bxor(a, b) == BitXor(a, b)

brotate_left_NoWrap(v, k) == BitAnd(Shl(v, BitAnd(k, 7)), 255)

brotate_left(v, k) ==
    LET m == BitAnd(k, 7)
    IN ToUChar(BitAnd(BitOr(Shl(v, m), Shr(v, 8 - m)), 255))

applyXOR_SkipFirst(d, size, k) ==
    [i \in 1 .. Len(d) |-> IF 1 < i /\ i <= size THEN BitXor(d[i], k) ELSE d[i]]

applyXOR(d, size, k) ==
    [i \in 1 .. Len(d) |-> IF i <= size THEN BitXor(d[i], k) ELSE d[i]]

---------------------------------------------------------------------------
(* The working directory and the image collaborators.  A BMP file holds its *)
(* width, height and scan lines; a pixel buffer is the row-major sequence   *)
(* of the width*height*3 bytes of those lines.                              *)

NoFile == [kind |-> "none"]

BmpFile(w, h, rows) == [kind |-> "bmp", w |-> w, h |-> h, rows |-> rows]

TxtFile(toks) == [kind |-> "txt", toks |-> toks]

NullPtr == [null |-> TRUE]

\* data[y * width * 3 + x] = line[x]
loadPixels_RowStride1(file) ==
    IF file.kind # "bmp" THEN NullPtr
    ELSE [null |-> FALSE, w |-> file.w, h |-> file.h,
          data |-> [i \in 1 .. file.w * file.h * 3 |->
                       file.rows[1][((i - 1) % (file.w * 3)) + 1]]]

loadPixels(file) ==
    IF file.kind # "bmp" THEN NullPtr
    ELSE [null |-> FALSE, w |-> file.w, h |-> file.h,
          data |-> [i \in 1 .. file.w * file.h * 3 |->
                       file.rows[((i - 1) \div (file.w * 3)) + 1]
                                [((i - 1) % (file.w * 3)) + 1]]]

\* line[x] = data[y * width * 3 + x]; the caller's buffer holds width*height*3 bytes
exportImage(data, w, h) ==
    BmpFile(w, h, [y \in 1 .. h |-> [x \in 1 .. w * 3 |-> data[(y - 1) * w * 3 + x]]])

\* the inline rotation of the encoder: (b >> 3) | (b << (8 - 3)), stored in a byte
RotR3Expr_NoWrap(b) == ToUChar(Shr(b, 3))

RotR3Expr(b) == ToUChar(BitOr(Shr(b, 3), Shl(b, 8 - 3)))

XorExpr_Or(a, b) == BitOr(a, b)

\* the inline a ^ b of the encoder
XorExpr(a, b) == BitXor(a, b)

---------------------------------------------------------------------------
(* Mask text files.  A file is a sequence of whitespace-separated tokens:   *)
(* a decimal integer that fits an int, a decimal integer above INT_MAX, or  *)
(* a word that is no number.                                                *)

TokInt(v) == [t |-> "int", v |-> v]

TokBig == [t |-> "big", v |-> 0]

TokBad == [t |-> "bad", v |-> 0]

\* stream >> int at token pos: the value stored, the fail bit, the new position.
\* A failed stream reads nothing; at end of file the variable keeps its value;
\* a word stores 0 and a number too large stores INT_MAX, both setting the fail bit.
ReadInt(toks, pos, failed, old) ==
    IF failed THEN [val |-> old, failed |-> TRUE, pos |-> pos]
    ELSE IF pos > Len(toks) THEN [val |-> old, failed |-> TRUE, pos |-> pos]
    ELSE IF toks[pos].t = "int" THEN [val |-> toks[pos].v, failed |-> FALSE, pos |-> pos + 1]
    ELSE IF toks[pos].t = "big" THEN [val |-> IntMax, failed |-> TRUE, pos |-> pos + 1]
    ELSE [val |-> 0, failed |-> TRUE, pos |-> pos]

CountTriplets_Once(toks, pos, failed) ==
    LET r == ReadInt(toks, pos, failed, 0)
        g == ReadInt(toks, r.pos, r.failed, 0)
        b == ReadInt(toks, g.pos, g.failed, 0)
    IN IF b.failed THEN 0 ELSE 1

\* while (f >> r >> g >> b) ++n_pixels;
RECURSIVE CountTriplets(_, _, _)
CountTriplets(toks, pos, failed) ==
    LET r == ReadInt(toks, pos, failed, 0)
        g == ReadInt(toks, r.pos, r.failed, 0)
        b == ReadInt(toks, g.pos, g.failed, 0)
    IN IF b.failed THEN 0 ELSE 1 + CountTriplets(toks, b.pos, b.failed)

\* The decoder's reader: the count pass reads ints, the second pass reads the
\* same tokens straight into the unsigned int array.
loadSeedMasking(file, seed, n_pixels) ==
    IF file.kind # "txt" THEN NullPtr
    ELSE LET toks == file.toks
             s == ReadInt(toks, 1, FALSE, seed)
             n == CountTriplets(toks, s.pos, s.failed)
         IN [null |-> FALSE, seed |-> s.val, n_pixels |-> n,
             S |-> [i \in 1 .. n * 3 |-> toks[s.pos + i - 1].v]]

\* The encoder's reader: both passes read ints r, g, b; the second pass
\* stores them converted to unsigned int.
loadSeedMasking_enc(file, seed, n_pixels) ==
    IF file.kind # "txt" THEN NullPtr
    ELSE LET toks == file.toks
             s == ReadInt(toks, 1, FALSE, seed)
             n == CountTriplets(toks, s.pos, s.failed)
         IN [null |-> FALSE, seed |-> s.val, n_pixels |-> n,
             S |-> [i \in 1 .. n * 3 |-> ToUInt(toks[s.pos + i - 1].v)]]

\* archivo >> r >> g >> b on the stream state st, which carries r, g and b
ReadTriplet(toks, st) ==
    LET r == ReadInt(toks, st.pos, st.failed, st.r)
        g == ReadInt(toks, r.pos, r.failed, st.g)
        b == ReadInt(toks, g.pos, g.failed, st.b)
    IN [pos |-> b.pos, failed |-> b.failed, r |-> r.val, g |-> g.val, b |-> b.val]

\* while (archivo >> r >> g >> b) n_pixels++;  counting on from n
RECURSIVE CountPass(_, _, _)
CountPass(toks, st, n) ==
    LET t == ReadTriplet(toks, st)
    IN IF t.failed THEN [st |-> t, n |-> n] ELSE CountPass(toks, t, n + 1)

\* k times: archivo >> r >> g >> b; RGB[i] = r; RGB[i + 1] = g; RGB[i + 2] = b
RECURSIVE FillPass(_, _, _)
FillPass(toks, st, k) ==
    IF k <= 0 THEN <<>>
    ELSE LET t == ReadTriplet(toks, st)
         IN <<ToUInt(t.r), ToUInt(t.g), ToUInt(t.b)>> \o FillPass(toks, t, k - 1)

\* values an uninitialised int may hold
JunkInts == {0, 7}

\* The reader of the bit-operations example: it counts on from the caller's
\* n_pixels, and r, g, b are not initialised (junk) before the count pass.
loadSeedMasking_bits(file, seed, n_pixels, junk) ==
    IF file.kind # "txt" THEN NullPtr
    ELSE LET toks == file.toks
             s == ReadInt(toks, 1, FALSE, seed)
             c == CountPass(toks, [pos |-> s.pos, failed |-> s.failed,
                                   r |-> junk, g |-> junk, b |-> junk], n_pixels)
             s2 == ReadInt(toks, 1, FALSE, s.val)
         IN [null |-> FALSE, seed |-> s2.val, n_pixels |-> c.n,
             S |-> FillPass(toks, [pos |-> s2.pos, failed |-> s2.failed,
                                   r |-> c.st.r, g |-> c.st.g, b |-> c.st.b], c.n)]

\* The reader of main.cpp: the statements of the encoder's reader
loadSeedMasking_main(file, seed, n_pixels) == loadSeedMasking_enc(file, seed, n_pixels)

---------------------------------------------------------------------------
(* The heap of a process.  A buffer is named by the pointer variable that   *)
(* holds it; no pointer variable of the programs is assigned twice.         *)

\* live: allocated and not released; freed: released; faults: the releases of a
\* released buffer and the accesses to a released buffer
NoHeap == [live |-> {}, freed |-> {}, faults |-> {}]

\* new[] assigned to pointer variable p
HeapNew(heap, p) == [heap EXCEPT !.live = @ \cup {p}]

\* delete [] p: nothing for a null pointer, a fault for a released buffer
HeapDelete(heap, p) ==
    IF p \in heap.live THEN [heap EXCEPT !.live = @ \ {p}, !.freed = @ \cup {p}]
    ELSE IF p \in heap.freed THEN [heap EXCEPT !.faults = @ \cup {<<"delete", p>>}]
    ELSE heap

\* p[i] read or written
HeapAccess(heap, p) ==
    IF p \in heap.freed THEN [heap EXCEPT !.faults = @ \cup {<<"access", p>>}] ELSE heap

HeapOp(heap, op) ==
    CASE op[1] = "new" -> HeapNew(heap, op[2])
      [] op[1] = "delete" -> HeapDelete(heap, op[2])
      [] op[1] = "access" -> HeapAccess(heap, op[2])

\* the heap after the operations ops, in order
RECURSIVE HeapRun(_, _)
HeapRun(heap, ops) ==
    IF ops = <<>> THEN heap ELSE HeapRun(HeapOp(heap, Head(ops)), Tail(ops))

\* the allocation made by a load that returned a buffer
Loaded(res, p) == IF res.null THEN <<>> ELSE <<<<"new", p>>>>

---------------------------------------------------------------------------
(* The encoder program.  pc names the step about to run; "exit" is a        *)
(* return from main with enc.code, "ub" a read outside a buffer.            *)

EncStop(code, log, heap) ==
    enc' = [enc EXCEPT !.pc = "exit", !.code = code, !.heap = heap, !.log = log]

\* exportImage writes the file or reports failure; its result is not used
EncExport(name, data, w, h) ==
    \E saved \in BOOLEAN :
        fs' = IF saved THEN [fs EXCEPT ![name] = exportImage(data, w, h)] ELSE fs

\* the releases of the failure branch of Paso 1
EncStep1Abort == << <<"delete", "ioData">>, <<"delete", "imData">> >>

\* the allocation, the loop and the releases of Paso 1
EncStep1Run ==
    << <<"new", "p1Data">>, <<"access", "p1Data">>, <<"access", "ioData">>,
       <<"access", "imData">>, <<"access", "p1Data">>,
       <<"delete", "ioData">>, <<"delete", "imData">> >>

\* Paso 1: P1 = I_O XOR I_M
EncStep1 ==
    /\ enc.pc = "step1"
    /\ LET io == loadPixels(fs["I_O.bmp"])
           im == loadPixels(fs["I_M.bmp"])
           heap == HeapRun(enc.heap, Loaded(io, "ioData") \o Loaded(im, "imData"))
       IN IF io.null \/ im.null
          THEN /\ EncStop(-1, enc.log, HeapRun(heap, EncStep1Abort))
               /\ UNCHANGED fs
          ELSE LET totalBytes == im.w * im.h * 3
               IN IF totalBytes > Len(io.data)
                  THEN /\ enc' = [enc EXCEPT !.pc = "ub", !.w = im.w, !.h = im.h,
                                             !.totalBytes = totalBytes, !.heap = heap]
                       /\ UNCHANGED fs
                  ELSE LET p1 == [i \in 1 .. totalBytes |-> XorExpr(io.data[i], im.data[i])]
                       IN /\ EncExport("P1.bmp", p1, im.w, im.h)
                          /\ enc' = [enc EXCEPT !.pc = "step2", !.w = im.w, !.h = im.h,
                                                !.totalBytes = totalBytes,
                                                !.p1Data = p1,
                                                !.heap = HeapRun(heap, EncStep1Run)]
    /\ UNCHANGED <<prim, xbuf, parse, dec, unm, demo>>

\* the release of the failure branch of Paso 2
EncStep2Abort == << <<"delete", "p1Data">> >>

\* the allocation, the loop and the releases of Paso 2
EncStep2Run ==
    << <<"new", "p2Data">>, <<"access", "p1Loaded">>, <<"access", "p2Data">>,
       <<"access", "p2Data">>, <<"delete", "p1Loaded">>, <<"delete", "p1Data">> >>

\* Paso 2: P2 = rotateRight(P1, 3), from the reloaded P1.bmp
EncStep2 ==
    /\ enc.pc = "step2"
    /\ LET p1Loaded == loadPixels(fs["P1.bmp"])
           heap == HeapRun(enc.heap, Loaded(p1Loaded, "p1Loaded"))
       IN IF p1Loaded.null
          THEN /\ EncStop(-1, enc.log, HeapRun(heap, EncStep2Abort))
               /\ UNCHANGED fs
          ELSE IF enc.totalBytes > Len(p1Loaded.data)
          THEN /\ enc' = [enc EXCEPT !.pc = "ub", !.heap = heap]
               /\ UNCHANGED fs
          ELSE LET p2 == [i \in 1 .. enc.totalBytes |-> RotR3Expr(p1Loaded.data[i])]
               IN /\ EncExport("P2.bmp", p2, p1Loaded.w, p1Loaded.h)
                  /\ enc' = [enc EXCEPT !.pc = "step3", !.w = p1Loaded.w, !.h = p1Loaded.h,
                                        !.p2Data = p2,
                                        !.heap = HeapRun(heap, EncStep2Run)]
    /\ UNCHANGED <<prim, xbuf, parse, dec, unm, demo>>

\* the releases of the failure branch of Paso 3
EncStep3Abort ==
    << <<"delete", "p2Loaded">>, <<"delete", "imReloaded">>, <<"delete", "p2Data">> >>

\* the allocation, the loop and the releases of Paso 3
EncStep3Run ==
    << <<"new", "p3Data">>, <<"access", "p2Loaded">>, <<"access", "imReloaded">>,
       <<"access", "p3Data">>, <<"access", "p3Data">>,
       <<"delete", "p2Loaded">>, <<"delete", "imReloaded">>,
       <<"delete", "p2Data">>, <<"delete", "p3Data">> >>

\* Paso 3: P3 = P2 XOR I_M, from the reloaded P2.bmp and I_M.bmp
EncStep3 ==
    /\ enc.pc = "step3"
    /\ LET p2Loaded == loadPixels(fs["P2.bmp"])
           imReloaded == loadPixels(fs["I_M.bmp"])
           heap == HeapRun(enc.heap, Loaded(p2Loaded, "p2Loaded") \o
                                     Loaded(imReloaded, "imReloaded"))
       IN IF p2Loaded.null \/ imReloaded.null
          THEN /\ EncStop(-1, enc.log, HeapRun(heap, EncStep3Abort))
               /\ UNCHANGED fs
          ELSE IF enc.totalBytes > Len(p2Loaded.data) \/ enc.totalBytes > Len(imReloaded.data)
          THEN /\ enc' = [enc EXCEPT !.pc = "ub", !.heap = heap]
               /\ UNCHANGED fs
          ELSE LET p3 == [i \in 1 .. enc.totalBytes |->
                             XorExpr(p2Loaded.data[i], imReloaded.data[i])]
               IN /\ EncExport("P3.bmp", p3, imReloaded.w, imReloaded.h)
                  /\ enc' = [enc EXCEPT !.pc = "mask", !.w = imReloaded.w,
                                        !.h = imReloaded.h, !.p3Data = p3,
                                        !.heap = HeapRun(heap, EncStep3Run)]
    /\ UNCHANGED <<prim, xbuf, parse, dec, unm, demo>>

\* the report of a loaded mask and its release
EncMaskRun == << <<"access", "mask">>, <<"delete", "mask">> >>

\* Lectura de la mascara M1.txt and return 0
EncMask ==
    /\ enc.pc = "mask"
    /\ LET mask == loadSeedMasking_enc(fs["M1.txt"], 0, 0)
           heap == HeapRun(enc.heap, Loaded(mask, "mask"))
       IN IF mask.null
          THEN EncStop(0, enc.log, heap)
          ELSE EncStop(0, Append(enc.log, [seed |-> mask.seed, n_pixels |-> mask.n_pixels]),
                       HeapRun(heap, EncMaskRun))
    /\ UNCHANGED <<prim, xbuf, parse, fs, dec, unm, demo>>

---------------------------------------------------------------------------
(* The decoder program.                                                     *)

desenmascarar_NoSeed(img, mask, S, seed, totalBytes) ==
    IF totalBytes <= 0 THEN img
    ELSE [i \in 1 .. Len(img) |->
            IF i <= totalBytes THEN LowByte(USub(S[i], mask[i])) ELSE img[i]]

desenmascarar_Clamp(img, mask, S, seed, totalBytes) ==
    IF totalBytes <= 0 THEN img
    ELSE [i \in 1 .. Len(img) |->
            IF seed + 1 <= i /\ i <= seed + totalBytes
            THEN (IF S[i - seed] < mask[i - seed] THEN 0
                  ELSE LowByte(USub(S[i - seed], mask[i - seed])))
            ELSE img[i]]

\* img[seed + k] = (S[k] - mask[k]) & 0xFF for k in [0, totalBytes); the caller
\* passes non-null buffers; the region lies inside img (else see DecInv2, DecInv1)
desenmascarar(img, mask, S, seed, totalBytes) ==
    IF totalBytes <= 0 THEN img
    ELSE [i \in 1 .. Len(img) |->
            IF seed + 1 <= i /\ i <= seed + totalBytes
            THEN LowByte(USub(S[i - seed], mask[i - seed]))
            ELSE img[i]]

\* the int sum seed + totalMaskBytes overflows
SumOverflows(seed, totalMaskBytes) == seed > IntMax - totalMaskBytes

\* the writes of desenmascarar stay inside img
RegionInside(seed, totalMaskBytes, dataSize) ==
    seed >= 0 /\ seed <= dataSize - totalMaskBytes

\* (n * 3 >= totalMaskBytes) && ((seed + totalMaskBytes) <= dataSize): the set of
\* results the test can give; a signed overflow of the sum is undefined, and a
\* build either wraps it (the test passes) or compares without wrapping
Validation_NoLengthCheck(n, seed, totalMaskBytes, dataSize) ==
    IF SumOverflows(seed, totalMaskBytes) THEN {TRUE, FALSE}
    ELSE {seed + totalMaskBytes <= dataSize}

Validation(n, seed, totalMaskBytes, dataSize) ==
    IF n * 3 < totalMaskBytes THEN {FALSE}
    ELSE IF SumOverflows(seed, totalMaskBytes) THEN {TRUE, FALSE}
    ELSE {seed + totalMaskBytes <= dataSize}

DecStop(code, heap) ==
    dec' = [dec EXCEPT !.pc = "exit", !.code = code, !.heap = heap]

\* the releases before each return 1 of the loading part
DecAbortImRand == << <<"delete", "img">> >>

DecAbortDims == << <<"delete", "img">>, <<"delete", "imRand">> >>

DecAbortMask == << <<"delete", "img">>, <<"delete", "imRand">> >>

DecAbortS1 == << <<"delete", "img">>, <<"delete", "imRand">>, <<"delete", "mask">> >>

DecAbortS2 ==
    << <<"delete", "img">>, <<"delete", "imRand">>, <<"delete", "mask">>,
       <<"delete", "S1">> >>

\* loading of P3.bmp, I_M.bmp, M.bmp, M1.txt and M2.txt
DecLoad ==
    /\ dec.pc = "load"
    /\ LET img == loadPixels(fs["P3.bmp"])
           imRand == loadPixels(fs["I_M.bmp"])
           mask == loadPixels(fs["M.bmp"])
           S1 == loadSeedMasking(fs["M1.txt"], 0, 0)
           S2 == loadSeedMasking(fs["M2.txt"], 0, 0)
           heap1 == HeapRun(dec.heap, Loaded(img, "img"))
           heap2 == HeapRun(heap1, Loaded(imRand, "imRand"))
           heap3 == HeapRun(heap2, Loaded(mask, "mask"))
           heap4 == HeapRun(heap3, Loaded(S1, "S1"))
           heap5 == HeapRun(heap4, Loaded(S2, "S2"))
       IN IF img.null THEN DecStop(1, heap1)
          ELSE IF imRand.null THEN DecStop(1, HeapRun(heap2, DecAbortImRand))
          ELSE IF img.w # imRand.w \/ img.h # imRand.h
          THEN DecStop(1, HeapRun(heap2, DecAbortDims))
          ELSE IF mask.null THEN DecStop(1, HeapRun(heap3, DecAbortMask))
          ELSE IF S1.null THEN DecStop(1, HeapRun(heap4, DecAbortS1))
          ELSE IF S2.null THEN DecStop(1, HeapRun(heap5, DecAbortS2))
          ELSE dec' = [dec EXCEPT !.pc = "inv3",
                          !.w = img.w, !.h = img.h, !.w2 = imRand.w, !.h2 = imRand.h,
                          !.img = img.data, !.imRand = imRand.data, !.mask = mask.data,
                          !.totalMaskBytes = mask.w * mask.h * 3,
                          !.S1 = S1.S, !.seed1 = S1.seed, !.n1 = S1.n_pixels,
                          !.S2 = S2.S, !.seed2 = S2.seed, !.n2 = S2.n_pixels,
                          !.dataSize = img.w * img.h * 3,
                          !.heap = heap5]
    /\ UNCHANGED <<prim, xbuf, parse, fs, enc, unm, demo>>

\* the buffers a whole-image XOR with imRand reads and writes
DecXorAccess == << <<"access", "img">>, <<"access", "imRand">> >>

\* the buffers desenmascarar with record S reads and writes
DecUnmaskAccess(S) == << <<"access", "img">>, <<"access", "mask">>, <<"access", S>> >>

\* the buffer the whole-image rotation reads and writes
DecRotateAccess == << <<"access", "img">> >>

\* Liberar memoria
DecRelease_KeepMask ==
    << <<"delete", "img">>, <<"delete", "imRand">>, <<"delete", "S1">>, <<"delete", "S2">> >>

DecRelease ==
    << <<"delete", "img">>, <<"delete", "imRand">>, <<"delete", "mask">>,
       <<"delete", "S1">>, <<"delete", "S2">> >>

DecInv3_Skip ==
    /\ dec.pc = "inv3"
    /\ dec' = [dec EXCEPT !.pc = "inv2", !.events = Append(@, "xor"),
                          !.report = Append(@, "Paso 3 inverso")]
    /\ UNCHANGED <<prim, xbuf, parse, fs, enc, unm, demo>>

\* Paso 3 inverso: XOR with imRand over the whole image
DecInv3 ==
    /\ dec.pc = "inv3"
    /\ IF dec.dataSize > 0 /\ dec.w2 * dec.h2 * 3 = dec.dataSize
       THEN dec' = [dec EXCEPT !.pc = "inv2",
                       !.img = [i \in 1 .. dec.dataSize |-> bxor(dec.img[i], dec.imRand[i])],
                       !.events = Append(@, "xor"),
                       !.heap = HeapRun(@, DecXorAccess),
                       !.report = Append(@, "Paso 3 inverso")]
       ELSE dec' = [dec EXCEPT !.pc = "inv2"]
    /\ UNCHANGED <<prim, xbuf, parse, fs, enc, unm, demo>>

DecInv2_RotateFirst ==
    /\ dec.pc = "inv2"
    /\ \E valid \in Validation(dec.n2, dec.seed2, dec.totalMaskBytes, dec.dataSize) :
          IF valid
          THEN IF RegionInside(dec.seed2, dec.totalMaskBytes, dec.dataSize)
               THEN LET rot == [i \in 1 .. dec.dataSize |-> brotate_left(dec.img[i], 3)]
                        um == desenmascarar(rot, dec.mask, dec.S2, dec.seed2,
                                            dec.totalMaskBytes)
                    IN dec' = [dec EXCEPT !.pc = "inv1",
                                  !.img = um,
                                  !.unmasked2 = um,
                                  !.ok2 = TRUE,
                                  !.events = @ \o <<"rotl", "unmask2">>,
                                  !.heap = HeapRun(@, DecRotateAccess \o DecUnmaskAccess("S2")),
                                  !.report = Append(@, "Paso 2 inverso")]
               ELSE dec' = [dec EXCEPT !.pc = "ub", !.ok2 = TRUE,
                               !.events = Append(@, "unmask2")]
          ELSE dec' = [dec EXCEPT !.pc = "inv1",
                          !.report = Append(@, "S2 no valida")]
    /\ UNCHANGED <<prim, xbuf, parse, fs, enc, unm, demo>>

\* Paso 2 inverso: desenmascarar with S2, then rotate every byte left by 3
DecInv2 ==
    /\ dec.pc = "inv2"
    /\ \E valid \in Validation(dec.n2, dec.seed2, dec.totalMaskBytes, dec.dataSize) :
          IF valid
          THEN IF RegionInside(dec.seed2, dec.totalMaskBytes, dec.dataSize)
               THEN LET um == desenmascarar(dec.img, dec.mask, dec.S2, dec.seed2,
                                            dec.totalMaskBytes)
                    IN dec' = [dec EXCEPT !.pc = "inv1",
                                  !.img = [i \in 1 .. dec.dataSize |-> brotate_left(um[i], 3)],
                                  !.unmasked2 = um,
                                  !.ok2 = TRUE,
                                  !.events = @ \o <<"unmask2", "rotl">>,
                                  !.heap = HeapRun(@, DecUnmaskAccess("S2") \o DecRotateAccess),
                                  !.report = Append(@, "Paso 2 inverso")]
               ELSE dec' = [dec EXCEPT !.pc = "ub", !.ok2 = TRUE,
                               !.events = Append(@, "unmask2")]
          ELSE dec' = [dec EXCEPT !.pc = "inv1",
                          !.report = Append(@, "S2 no valida")]
    /\ UNCHANGED <<prim, xbuf, parse, fs, enc, unm, demo>>

\* Paso 1 inverso: desenmascarar with S1, then XOR with imRand
DecInv1 ==
    /\ dec.pc = "inv1"
    /\ \E valid \in Validation(dec.n1, dec.seed1, dec.totalMaskBytes, dec.dataSize) :
          IF valid
          THEN IF RegionInside(dec.seed1, dec.totalMaskBytes, dec.dataSize)
               THEN LET um == desenmascarar(dec.img, dec.mask, dec.S1, dec.seed1,
                                            dec.totalMaskBytes)
                    IN dec' = [dec EXCEPT !.pc = "export",
                                  !.img = [i \in 1 .. dec.dataSize |-> bxor(um[i], dec.imRand[i])],
                                  !.unmasked1 = um,
                                  !.ok1 = TRUE,
                                  !.events = @ \o <<"unmask1", "xor">>,
                                  !.heap = HeapRun(@, DecUnmaskAccess("S1") \o DecXorAccess),
                                  !.report = Append(@, "Paso 1 inverso")]
               ELSE dec' = [dec EXCEPT !.pc = "ub", !.ok1 = TRUE,
                               !.events = Append(@, "unmask1")]
          ELSE dec' = [dec EXCEPT !.pc = "export",
                          !.report = Append(@, "S1 no valida")]
    /\ UNCHANGED <<prim, xbuf, parse, fs, enc, unm, demo>>

\* export of I_D.bmp, release of the buffers, return 0
DecExport ==
    /\ dec.pc = "export"
    /\ \E saved \in BOOLEAN :
          /\ fs' = IF saved
                   THEN [fs EXCEPT !["I_D.bmp"] = exportImage(dec.img, dec.w, dec.h)]
                   ELSE fs
          /\ dec' = [dec EXCEPT !.pc = "exit", !.code = 0,
                        !.events = Append(@, "save"),
                        !.heap = HeapRun(@, <<<<"access", "img">>>> \o DecRelease),
                        !.report = Append(@, IF saved THEN "exportada" ELSE "error al exportar")]
    /\ UNCHANGED <<prim, xbuf, parse, enc, unm, demo>>

---------------------------------------------------------------------------
(* The pipeline: the encoder and the decoder run as two programs over one   *)
(* working directory that starts with the inputs and no intermediate file.  *)

\* widest image generated
MaxW == 2

\* tallest image generated
MaxH == 2

\* most pixels of an image generated
MaxPixels == 4

\* widest mask image generated (its height is 1)
MaxMaskW == 1

FileNames ==
    {"I_O.bmp", "I_M.bmp", "M.bmp", "P1.bmp", "P2.bmp", "P3.bmp", "I_D.bmp",
     "M1.txt", "M2.txt"}

\* byte i of a generated picture: a constant picture or a gradient
PatByte(pat, i) == (pat[1] + pat[2] * i) % ByteMod

MkBmp(w, h, pat) ==
    BmpFile(w, h, [y \in 1 .. h |-> [x \in 1 .. w * 3 |-> PatByte(pat, (y - 1) * w * 3 + x)]])

Dims == {d \in (1 .. MaxW) \X (1 .. MaxH) : d[1] * d[2] <= MaxPixels}

\* I_O.bmp: all zero, or a gradient
IOFiles == {NoFile} \cup {MkBmp(d[1], d[2], pat) : d \in Dims, pat \in {<<0, 0>>, <<11, 37>>}}

\* I_M.bmp: all 0x0F, or a gradient; of the size of I_O.bmp, or 1 x 1, or
\* transposed, or the largest picture
IMFiles(io) ==
    IF io = NoFile THEN {MkBmp(1, 1, <<15, 0>>)}
    ELSE {NoFile}
         \cup {MkBmp(io.w, io.h, pat) : pat \in {<<15, 0>>, <<200, 91>>}}
         \cup {MkBmp(1, 1, <<15, 0>>), MkBmp(io.h, io.w, <<15, 0>>),
               MkBmp(MaxW, MaxH, <<15, 0>>)}

\* M.bmp: all 0xFF, or a gradient
MFiles == {NoFile} \cup {MkBmp(w, 1, pat) : w \in 1 .. MaxMaskW, pat \in {<<255, 0>>, <<7, 50>>}}

MaskOk0 == TxtFile(<<TokInt(0), TokInt(2), TokInt(300), TokInt(255)>>)

MaskOk3 ==
    TxtFile(<<TokInt(3), TokInt(9), TokInt(0), TokInt(511), TokInt(128), TokInt(1), TokInt(77)>>)

MaskOk1 == TxtFile(<<TokInt(1), TokInt(40), TokInt(3), TokInt(256)>>)

MaskEmpty == TxtFile(<<TokInt(0)>>)

MaskShort == TxtFile(<<TokInt(0), TokInt(5), TokInt(6)>>)

MaskFar == TxtFile(<<TokInt(12), TokInt(1), TokInt(2), TokInt(3)>>)

MaskNeg == TxtFile(<<TokInt(-1), TokInt(1), TokInt(2), TokInt(3)>>)

MaskMax == TxtFile(<<TokInt(IntMax), TokInt(1), TokInt(2), TokInt(3)>>)

MaskBig == TxtFile(<<TokBig, TokInt(1), TokInt(2), TokInt(3)>>)

\* the pairs (M1.txt, M2.txt) the directory starts with
MaskPairs ==
    ({MaskOk0, MaskOk3, MaskEmpty, MaskFar} \X {MaskOk0, MaskOk3, MaskEmpty, MaskFar})
    \cup {<<MaskNeg, MaskOk0>>, <<MaskOk0, MaskNeg>>, <<MaskMax, MaskOk0>>,
          <<MaskOk0, MaskMax>>, <<MaskShort, MaskOk0>>, <<MaskOk0, MaskShort>>,
          <<MaskBig, MaskOk0>>, <<NoFile, MaskOk0>>, <<MaskOk0, NoFile>>,
          <<NoFile, NoFile>>, <<MaskOk1, MaskOk0>>}

EncStart ==
    [pc |-> "step1", w |-> 0, h |-> 0, totalBytes |-> 0, p1Data |-> <<>>,
     p2Data |-> <<>>, p3Data |-> <<>>, heap |-> NoHeap, code |-> 0, log |-> <<>>]

DecStart ==
    [pc |-> "load", w |-> 0, h |-> 0, w2 |-> 0, h2 |-> 0, img |-> <<>>,
     imRand |-> <<>>, mask |-> <<>>, totalMaskBytes |-> 0,
     S1 |-> <<>>, seed1 |-> 0, n1 |-> 0, S2 |-> <<>>, seed2 |-> 0, n2 |-> 0,
     dataSize |-> 0, unmasked1 |-> <<>>, unmasked2 |-> <<>>,
     ok1 |-> FALSE, ok2 |-> FALSE, events |-> <<>>, report |-> <<>>, code |-> 0,
     heap |-> NoHeap]

Init ==
    /\ prim = IdlePrim
    /\ xbuf = IdleXbuf
    /\ parse = IdleParse
    /\ unm = IdleUnm
    /\ \E io \in IOFiles, m \in MFiles, mp \in MaskPairs :
          \E im \in IMFiles(io) :
             fs = [f \in FileNames |->
                      CASE f = "I_O.bmp" -> io
                        [] f = "I_M.bmp" -> im
                        [] f = "M.bmp" -> m
                        [] f = "M1.txt" -> mp[1]
                        [] f = "M2.txt" -> mp[2]
                        [] OTHER -> NoFile]
    /\ enc = EncStart
    /\ dec = DecStart
    /\ demo = IdleProc

\* The record of a masking at offset seed of picture px with mask m: the seed,
\* then px[seed + k] + m[k] for every byte of the mask, reduced modulo 256 or not.
MaskRecordOf(px, m, seed, wrap) ==
    TxtFile(<<TokInt(seed)>> \o
            [k \in 1 .. Len(m) |->
                TokInt(IF wrap THEN (px[seed + k] + m[k]) % ByteMod ELSE px[seed + k] + m[k])])

\* The masking party: once P1.bmp and P2.bmp exist and no mask record does, it
\* writes M1.txt (from P1.bmp) and M2.txt (from P2.bmp) for two offsets it picks.
RecordMasks ==
    /\ fs["M1.txt"] = NoFile /\ fs["M2.txt"] = NoFile
    /\ fs["P1.bmp"] # NoFile /\ fs["P2.bmp"] # NoFile /\ fs["M.bmp"] # NoFile
    /\ dec.pc = "load"
    /\ LET p1 == loadPixels(fs["P1.bmp"]).data
           p2 == loadPixels(fs["P2.bmp"]).data
           m == loadPixels(fs["M.bmp"]).data
       IN /\ Len(m) <= Len(p1)
          /\ \E seed1 \in {0, Len(p1) - Len(m)}, seed2 \in {0, Len(p1) - Len(m)}, wrap \in BOOLEAN :
                fs' = [fs EXCEPT !["M1.txt"] = MaskRecordOf(p1, m, seed1, wrap),
                                 !["M2.txt"] = MaskRecordOf(p2, m, seed2, wrap)]
    /\ UNCHANGED <<prim, xbuf, parse, enc, dec, unm, demo>>

Next ==
    \/ EncStep1 \/ EncStep2 \/ EncStep3 \/ EncMask
    \/ RecordMasks
    \/ DecLoad \/ DecInv3 \/ DecInv2 \/ DecInv1 \/ DecExport

Spec == Init /\ [][Next]_vars

---------------------------------------------------------------------------
(* The programs run again in a directory that may hold the P3.bmp of an     *)
(* earlier run, so that the decoder can meet an I_M.bmp of another size.    *)

\* P3.bmp left by an earlier run
StaleP3Files == {NoFile, MkBmp(1, 1, <<238, 0>>), MkBmp(MaxW, 1, <<238, 3>>)}

RerunMaskPairs ==
    {<<NoFile, NoFile>>, <<MaskOk0, MaskOk3>>, <<MaskOk0, NoFile>>, <<NoFile, MaskOk0>>,
     <<MaskNeg, MaskOk0>>}

InitRerun ==
    /\ prim = IdlePrim
    /\ xbuf = IdleXbuf
    /\ parse = IdleParse
    /\ unm = IdleUnm
    /\ \E io \in {NoFile} \cup {MkBmp(d[1], d[2], <<11, 37>>) : d \in Dims},
          m \in MFiles, mp \in RerunMaskPairs, p3 \in StaleP3Files :
          \E im \in IMFiles(io) :
             fs = [f \in FileNames |->
                      CASE f = "I_O.bmp" -> io
                        [] f = "I_M.bmp" -> im
                        [] f = "M.bmp" -> m
                        [] f = "M1.txt" -> mp[1]
                        [] f = "M2.txt" -> mp[2]
                        [] f = "P3.bmp" -> p3
                        [] OTHER -> NoFile]
    /\ enc = EncStart
    /\ dec = DecStart
    /\ demo = IdleProc

SpecRerun == InitRerun /\ [][Next]_vars

---------------------------------------------------------------------------
(* The program of main.cpp: a gradient written over I_O.bmp gives I_D.bmp,  *)
(* its rotation P2.bmp, and P2 XOR I_M gives P3.bmp; main always returns 0. *)
(* failed is the set of pixel buffers that did not load, mismatch tells     *)
(* that P2.bmp and I_M.bmp were loaded with different dimensions.           *)

MainStart ==
    [pc |-> "block1", prog |-> "main", width |-> 0, height |-> 0, failed |-> {},
     mismatch |-> FALSE, printed |-> 0, code |-> 0]

\* exportImage of a picture without pixels cannot save; otherwise it may fail
MainExport(name, data, w, h) ==
    \E saved \in BOOLEAN :
        fs' = IF saved /\ w > 0 /\ h > 0
              THEN [fs EXCEPT ![name] = exportImage(data, w, h)]
              ELSE fs

\* Bloque ORIGINAL: the gradient over the loaded picture, exported as I_D.bmp;
\* the result of loadPixels is not tested, and width = height = 0 when it is null
MainBlock1 ==
    /\ demo.pc = "block1"
    /\ LET pixelData == loadPixels(fs["I_O.bmp"])
           width == IF pixelData.null THEN demo.width ELSE pixelData.w
           height == IF pixelData.null THEN demo.height ELSE pixelData.h
           grad == [i \in 1 .. width * height * 3 |-> ToUChar(((i - 1) \div 3) * 3)]
       IN /\ MainExport("I_D.bmp", grad, width, height)
          /\ demo' = [demo EXCEPT !.pc = "block2", !.width = width, !.height = height,
                         !.failed = IF pixelData.null THEN @ \cup {"pixelData"} ELSE @]
    /\ UNCHANGED <<prim, xbuf, parse, enc, dec, unm>>

\* Segundo paso: I_D.bmp rotated right by 3 bits, exported as P2.bmp
MainBlock2 ==
    /\ demo.pc = "block2"
    /\ LET p1Data == loadPixels(fs["I_D.bmp"])
       IN IF p1Data.null
          THEN /\ demo' = [demo EXCEPT !.pc = "block3", !.failed = @ \cup {"p1Data"}]
               /\ UNCHANGED fs
          ELSE LET totalBytes == p1Data.w * p1Data.h * 3
                   rotatedData == [i \in 1 .. totalBytes |-> RotR3Expr(p1Data.data[i])]
               IN /\ MainExport("P2.bmp", rotatedData, p1Data.w, p1Data.h)
                  /\ demo' = [demo EXCEPT !.pc = "block3", !.width = p1Data.w,
                                          !.height = p1Data.h]
    /\ UNCHANGED <<prim, xbuf, parse, enc, dec, unm>>

\* Tercer paso: P2.bmp XOR I_M.bmp over the size of I_M.bmp, exported as P3.bmp
MainBlock3 ==
    /\ demo.pc = "block3"
    /\ LET p2Data == loadPixels(fs["P2.bmp"])
           imData == loadPixels(fs["I_M.bmp"])
           failed == demo.failed \cup (IF p2Data.null THEN {"p2Data"} ELSE {})
                                 \cup (IF imData.null THEN {"imData"} ELSE {})
       IN IF p2Data.null \/ imData.null
          THEN /\ demo' = [demo EXCEPT !.pc = "mask", !.failed = failed,
                              !.width = IF ~imData.null THEN imData.w
                                        ELSE IF ~p2Data.null THEN p2Data.w ELSE @,
                              !.height = IF ~imData.null THEN imData.h
                                         ELSE IF ~p2Data.null THEN p2Data.h ELSE @]
               /\ UNCHANGED fs
          ELSE LET totalBytes == imData.w * imData.h * 3
                   differ == p2Data.w # imData.w \/ p2Data.h # imData.h
               IN IF totalBytes > Len(p2Data.data)
                  THEN /\ demo' = [demo EXCEPT !.pc = "ub", !.mismatch = differ,
                                      !.width = imData.w, !.height = imData.h]
                       /\ UNCHANGED fs
                  ELSE LET p3Data == [i \in 1 .. totalBytes |->
                                         XorExpr(p2Data.data[i], imData.data[i])]
                       IN /\ MainExport("P3.bmp", p3Data, imData.w, imData.h)
                          /\ demo' = [demo EXCEPT !.pc = "mask", !.mismatch = differ,
                                         !.width = imData.w, !.height = imData.h]
    /\ UNCHANGED <<prim, xbuf, parse, enc, dec, unm>>

\* Lectura de enmascaramiento: the triplets of M1.txt are printed; return 0
MainMask ==
    /\ demo.pc = "mask"
    /\ LET maskingData == loadSeedMasking_main(fs["M1.txt"], 0, 0)
       IN demo' = [demo EXCEPT !.pc = "exit", !.code = 0,
                      !.printed = IF maskingData.null THEN 0 ELSE maskingData.n_pixels]
    /\ UNCHANGED <<prim, xbuf, parse, fs, enc, dec, unm>>

\* M1.txt of the program of main.cpp
MainMaskFiles == {NoFile, MaskOk0, MaskEmpty}

InitMain ==
    /\ prim = IdlePrim
    /\ xbuf = IdleXbuf
    /\ parse = IdleParse
    /\ unm = IdleUnm
    /\ \E io \in IOFiles, m1 \in MainMaskFiles :
          \E im \in IMFiles(io) :
             fs = [f \in FileNames |->
                      CASE f = "I_O.bmp" -> io
                        [] f = "I_M.bmp" -> im
                        [] f = "M1.txt" -> m1
                        [] OTHER -> NoFile]
    /\ enc = IdleProc
    /\ dec = IdleProc
    /\ demo = MainStart

NextMain == MainBlock1 \/ MainBlock2 \/ MainBlock3 \/ MainMask

SpecMain == InitMain /\ [][NextMain]_vars

---------------------------------------------------------------------------
(* The bit-operations example: I_O.bmp goes through XOR 0xAA, rotateRight 3, *)
(* rotateLeft 3 and shiftLeftOp 1 and is exported as I_D.bmp; the triplets   *)
(* of M1.txt and M2.txt are then "reverted" and printed.                    *)

BitsStart ==
    [pc |-> "part1", prog |-> "bits", pixelData0 |-> <<>>, pixelData |-> <<>>,
     stages |-> <<>>, exported |-> FALSE, revert1 |-> <<>>, printed1 |-> <<>>,
     revert2 |-> <<>>, printed2 |-> <<>>, code |-> 0]

\* unsigned char xorKey = 0xAA
XorKey == 170

\* PARTE 1: the four operations over the whole buffer, in order, and the export
BitsPart1 ==
    /\ demo.pc = "part1"
    /\ LET pixelData == loadPixels(fs["I_O.bmp"])
       IN IF pixelData.null
          THEN /\ demo' = [demo EXCEPT !.pc = "exit", !.code = 1]
               /\ UNCHANGED fs
          ELSE LET dataSize == pixelData.w * pixelData.h * 3
                   d1 == applyXOR(pixelData.data, dataSize, XorKey)
                   d2 == [i \in 1 .. dataSize |-> rotateRight(d1[i], 3)]
                   d3 == [i \in 1 .. dataSize |-> rotateLeft(d2[i], 3)]
                   d4 == [i \in 1 .. dataSize |-> shiftLeftOp(d3[i], 1)]
               IN \E saved \in BOOLEAN :
                     /\ fs' = IF saved
                              THEN [fs EXCEPT !["I_D.bmp"] =
                                                 exportImage(d4, pixelData.w, pixelData.h)]
                              ELSE fs
                     /\ demo' = [demo EXCEPT !.pc = "mask1",
                                    !.pixelData0 = pixelData.data,
                                    !.pixelData = d4,
                                    !.stages = <<"applyXOR", "rotateRight", "rotateLeft",
                                                 "shiftLeftOp">>,
                                    !.exported = saved]
    /\ UNCHANGED <<prim, xbuf, parse, enc, dec, unm>>

\* the triplets of a loaded record, each component cast to unsigned char
Triplets(rec) ==
    [t \in 1 .. rec.n_pixels |->
        <<LowByte(rec.S[3 * t - 2]), LowByte(rec.S[3 * t - 1]), LowByte(rec.S[3 * t])>>]

\* M1.txt: R xor seed, G rotated left by 3, B shifted right by 1
BitsMask1 ==
    /\ demo.pc = "mask1"
    /\ \E junk \in JunkInts :
          LET maskingData1 == loadSeedMasking_bits(fs["M1.txt"], 0, 0, junk)
          IN IF maskingData1.null
             THEN demo' = [demo EXCEPT !.pc = "mask2"]
             ELSE demo' = [demo EXCEPT !.pc = "mask2",
                              !.revert1 = <<"bitwiseXOR", "rotateLeft", "shiftRightOp">>,
                              !.printed1 =
                                  [t \in 1 .. maskingData1.n_pixels |->
                                      LET px == Triplets(maskingData1)[t]
                                      IN <<bitwiseXOR(px[1], LowByte(maskingData1.seed)),
                                           rotateLeft(px[2], 3),
                                           shiftRightOp(px[3], 1)>>]]
    /\ UNCHANGED <<prim, xbuf, parse, fs, enc, dec, unm>>

\* M2.txt: R xor seed, G rotated right by 3, B shifted left by 1; return 0
BitsMask2 ==
    /\ demo.pc = "mask2"
    /\ \E junk \in JunkInts :
          LET maskingData2 == loadSeedMasking_bits(fs["M2.txt"], 0, 0, junk)
          IN IF maskingData2.null
             THEN demo' = [demo EXCEPT !.pc = "exit", !.code = 0]
             ELSE demo' = [demo EXCEPT !.pc = "exit", !.code = 0,
                              !.revert2 = <<"bitwiseXOR", "rotateRight", "shiftLeftOp">>,
                              !.printed2 =
                                  [t \in 1 .. maskingData2.n_pixels |->
                                      LET px == Triplets(maskingData2)[t]
                                      IN <<bitwiseXOR(px[1], LowByte(maskingData2.seed)),
                                           rotateRight(px[2], 3),
                                           shiftLeftOp(px[3], 1)>>]]
    /\ UNCHANGED <<prim, xbuf, parse, fs, enc, dec, unm>>

\* I_O.bmp of the example: the pictures of the pipeline, and pictures whose bytes
\* alternate between 0x81 and 0x01
BitsIOFiles == IOFiles \cup {MkBmp(d[1], d[2], <<1, 128>>) : d \in Dims}

BitsMaskFiles == {NoFile, MaskOk0, MaskOk3, MaskEmpty, MaskNeg}

InitBits ==
    /\ prim = IdlePrim
    /\ xbuf = IdleXbuf
    /\ parse = IdleParse
    /\ unm = IdleUnm
    /\ \E io \in BitsIOFiles, m1 \in BitsMaskFiles, m2 \in BitsMaskFiles :
          fs = [f \in FileNames |->
                   CASE f = "I_O.bmp" -> io
                     [] f = "M1.txt" -> m1
                     [] f = "M2.txt" -> m2
                     [] OTHER -> NoFile]
    /\ enc = IdleProc
    /\ dec = IdleProc
    /\ demo = BitsStart

NextBits == BitsPart1 \/ BitsMask1 \/ BitsMask2

SpecBits == InitBits /\ [][NextBits]_vars

---------------------------------------------------------------------------
(* Bounds of the harnesses *)

\* largest rotation count tried
MaxRot == 7

\* longest buffer handed to applyXOR
MaxXorLen == 3

---------------------------------------------------------------------------
(* Harness of the scalar primitives: a byte v0, a count or key k, and the   *)
(* results of the primitives applied so far.                                *)

PrimStep(name, res) ==
    /\ prim.on
    /\ Len(prim.ops) < 2
    /\ prim' = [prim EXCEPT !.v = res,
                            !.ops = Append(@, name),
                            !.trail = Append(@, res)]
    /\ UNCHANGED <<xbuf, parse, fs, enc, dec, unm, demo>>

CallRotateRight == PrimStep("rotateRight", rotateRight(prim.v, prim.k))

CallRotateLeft == PrimStep("rotateLeft", rotateLeft(prim.v, prim.k))

CallBrotateLeft == PrimStep("brotate_left", brotate_left(prim.v, prim.k))

CallBitwiseXOR == PrimStep("bitwiseXOR", bitwiseXOR(prim.v, prim.k))

CallBxor == PrimStep("bxor", bxor(prim.v, prim.k))

\* applyXOR(pixelData, dataSize, xorKey) over the whole buffer
CallApplyXOR ==
    /\ xbuf.on
    /\ xbuf.n < 2
    /\ xbuf' = [xbuf EXCEPT !.data = applyXOR(xbuf.data, Len(xbuf.data), xbuf.key),
                            !.n = @ + 1]
    /\ UNCHANGED <<prim, parse, fs, enc, dec, unm, demo>>

InitRot ==
    /\ prim \in [on : {TRUE}, v0 : Byte, v : Byte, k : 0 .. MaxRot,
                 ops : {<<>>}, trail : {<<>>}]
    /\ prim.v = prim.v0
    /\ xbuf = IdleXbuf
    /\ parse = IdleParse
    /\ unm = IdleUnm
    /\ fs = NoFs
    /\ enc = IdleProc
    /\ dec = IdleProc
    /\ demo = IdleProc

NextRot == CallRotateRight \/ CallRotateLeft \/ CallBrotateLeft

SpecRot == InitRot /\ [][NextRot]_vars

XorPattern(a, len) == [i \in 1 .. len |-> (a + 85 * (i - 1)) % ByteMod]

XorKeys == {0, 1, 170, 255}

InitXor ==
    \/ /\ prim \in [on : {TRUE}, v0 : Byte, v : Byte, k : Byte,
                    ops : {<<>>}, trail : {<<>>}]
       /\ prim.v = prim.v0
       /\ xbuf = IdleXbuf
       /\ parse = IdleParse
       /\ unm = IdleUnm
       /\ fs = NoFs
       /\ enc = IdleProc
       /\ dec = IdleProc
       /\ demo = IdleProc
    \/ /\ prim = IdlePrim
       /\ \E a \in Byte, len \in 0 .. MaxXorLen, key \in XorKeys :
             xbuf = [on |-> TRUE, data0 |-> XorPattern(a, len),
                     data |-> XorPattern(a, len), key |-> key, n |-> 0]
       /\ parse = IdleParse
       /\ unm = IdleUnm
       /\ fs = NoFs
       /\ enc = IdleProc
       /\ dec = IdleProc
       /\ demo = IdleProc

NextXor == CallBitwiseXOR \/ CallBxor \/ CallApplyXOR

SpecXor == InitXor /\ [][NextXor]_vars

---------------------------------------------------------------------------
(* Harness of loadSeedMasking: a mask text file, read once by one of the    *)
(* readers.                                                                 *)

\* most integers after the seed in a generated mask file
MaxToks == 7

BodyPattern(m, a) == [i \in 1 .. m |-> TokInt((a * 37 * i + i) % ByteMod)]

SpecialToks == {TokInt(300), TokInt(-1), TokInt(IntMax), TokBig, TokBad}

SeedToks == {TokInt(0), TokInt(3), TokInt(-1), TokInt(IntMax), TokBig, TokBad}

ParseBodies ==
    {BodyPattern(m, a) : m \in 0 .. MaxToks, a \in {1, 2}}
    \cup {[BodyPattern(m, 1) EXCEPT ![p] = t] :
             <<m, p, t>> \in {x \in (1 .. MaxToks) \X (1 .. MaxToks) \X SpecialToks : x[2] <= x[1]}}

ParseFiles ==
    {NoFile, TxtFile(<<>>)} \cup {TxtFile(<<s>> \o b) : s \in SeedToks, b \in ParseBodies}

InitParse ==
    /\ prim = IdlePrim
    /\ xbuf = IdleXbuf
    /\ \E f \in ParseFiles :
          parse = [on |-> TRUE, file |-> f, n0 |-> 0, called |-> "", out |-> NullPtr]
    /\ unm = IdleUnm
    /\ fs = NoFs
    /\ enc = IdleProc
    /\ dec = IdleProc
    /\ demo = IdleProc

\* unsigned int* S1 = loadSeedMasking("M1.txt", seed1, n1), with seed1 = 0
CallLoadSeedMasking ==
    /\ parse.on /\ parse.called = ""
    /\ parse' = [parse EXCEPT !.called = "decoder",
                              !.out = loadSeedMasking(parse.file, 0, parse.n0)]
    /\ UNCHANGED <<prim, xbuf, fs, enc, dec, unm, demo>>

\* unsigned int* mask = loadSeedMasking("M1.txt", seed, n_pixels), seed = 0
CallLoadSeedMaskingEnc ==
    /\ parse.on /\ parse.called = ""
    /\ parse' = [parse EXCEPT !.called = "encoder",
                              !.out = loadSeedMasking_enc(parse.file, 0, parse.n0)]
    /\ UNCHANGED <<prim, xbuf, fs, enc, dec, unm, demo>>

NextParse == CallLoadSeedMasking \/ CallLoadSeedMaskingEnc

SpecParse == InitParse /\ [][NextParse]_vars

\* largest value the caller's n_pixels holds before a call
MaxCallerN == 2

\* calls with a caller's n_pixels left by an earlier call
InitCount ==
    /\ prim = IdlePrim
    /\ xbuf = IdleXbuf
    /\ \E f \in ParseFiles, n0 \in 0 .. MaxCallerN :
          parse = [on |-> TRUE, file |-> f, n0 |-> n0, called |-> "", out |-> NullPtr]
    /\ unm = IdleUnm
    /\ fs = NoFs
    /\ enc = IdleProc
    /\ dec = IdleProc
    /\ demo = IdleProc

\* unsigned int *maskingData = loadSeedMasking("M1.txt", seed, n_pixels) of main.cpp
CallLoadSeedMaskingMain ==
    /\ parse.on /\ parse.called = ""
    /\ parse' = [parse EXCEPT !.called = "main",
                              !.out = loadSeedMasking_main(parse.file, 0, parse.n0)]
    /\ UNCHANGED <<prim, xbuf, fs, enc, dec, unm, demo>>

\* unsigned int *maskingData1 = loadSeedMasking("M1.txt", seed1, n_pixels1) of the
\* bit-operations example
CallLoadSeedMaskingBits ==
    /\ parse.on /\ parse.called = ""
    /\ \E junk \in JunkInts :
          parse' = [parse EXCEPT !.called = "bits",
                                 !.out = loadSeedMasking_bits(parse.file, 0, parse.n0, junk)]
    /\ UNCHANGED <<prim, xbuf, fs, enc, dec, unm, demo>>

NextCount ==
    \/ CallLoadSeedMasking \/ CallLoadSeedMaskingEnc
    \/ CallLoadSeedMaskingMain \/ CallLoadSeedMaskingBits

SpecCount == InitCount /\ [][NextCount]_vars

---------------------------------------------------------------------------
(* Harness of desenmascarar: one call on a 6-byte image with a 3-byte mask  *)
(* and a 3-value record, for recorded values over the whole unsigned range. *)

\* recorded values tried: small ones, ones above 255, and ones with the top bit set
SVals == {0, 1, 2, 127, 128, 254, 255, 256, 257, 300, 510, 511, 65535, 65536,
          IntMax, IntMin, -1, -2, -255, -256, -257}

\* the buffers of a call: the picture, the mask picture and the record, with the
\* set nulls of the arguments passed as null pointers
UnmaskCall(s, m, seed, total, nulls) ==
    [on |-> TRUE, img0 |-> <<10, 20, 30, 40, 50, 60>>,
     img |-> <<10, 20, 30, 40, 50, 60>>,
     mask0 |-> <<m, (m + 85) % ByteMod, 255 - m>>,
     mask |-> <<m, (m + 85) % ByteMod, 255 - m>>,
     S0 |-> <<s, 2, s>>, S |-> <<s, 2, s>>,
     nulls |-> nulls, seed |-> seed, total |-> total, called |-> FALSE]

InitUnmask ==
    /\ prim = IdlePrim
    /\ xbuf = IdleXbuf
    /\ parse = IdleParse
    /\ \E s \in SVals, m \in Byte, seed \in 0 .. 3, total \in {0, 3} :
          unm = UnmaskCall(s, m, seed, total, {})
    /\ fs = NoFs
    /\ enc = IdleProc
    /\ dec = IdleProc
    /\ demo = IdleProc

\* if (!img || !mask || !S || totalBytes <= 0) return;
desenmascararReturns(nulls, totalBytes) == nulls # {} \/ totalBytes <= 0

\* desenmascarar(img, mask, S, seed, totalMaskBytes)
CallDesenmascarar ==
    /\ unm.on /\ ~unm.called
    /\ unm' = [unm EXCEPT !.called = TRUE,
                          !.img = IF desenmascararReturns(unm.nulls, unm.total) THEN @
                                  ELSE desenmascarar(unm.img, unm.mask, unm.S, unm.seed,
                                                     unm.total)]
    /\ UNCHANGED <<prim, xbuf, parse, fs, enc, dec, demo>>

NextUnmask == CallDesenmascarar

SpecUnmask == InitUnmask /\ [][NextUnmask]_vars

\* calls with null arguments, with sizes that are not positive, and with a mask
\* shorter than the record
FrameTotals == {-1, 0, 2, 3}

InitFrame ==
    /\ prim = IdlePrim
    /\ xbuf = IdleXbuf
    /\ parse = IdleParse
    /\ \E s \in SVals, m \in {0, 200}, seed \in 0 .. 3, total \in FrameTotals,
          nulls \in SUBSET {"img", "mask", "S"} :
          unm = UnmaskCall(s, m, seed, total, nulls)
    /\ fs = NoFs
    /\ enc = IdleProc
    /\ dec = IdleProc
    /\ demo = IdleProc

SpecFrame == InitFrame /\ [][NextUnmask]_vars

---------------------------------------------------------------------------
(* Reference definitions the claims are stated with: arithmetic on the bit  *)
(* positions, written independently of the program's expressions.           *)

BitAt(v, i) == (v \div Pow2(i)) % 2

RefXor(a, b) ==
    LET d(i) == IF BitAt(a, i) = BitAt(b, i) THEN 0 ELSE Pow2(i)
    IN d(0) + d(1) + d(2) + d(3) + d(4) + d(5) + d(6) + d(7)

RefRotR3(v) == (v \div 8) + (v % 8) * 32

RefRotL3(v) == (v % 32) * 8 + (v \div 32)

\* (s - m) mod 256 for a recorded value s kept as a 32-bit pattern
RefSubMod(s, m) == ((s % ByteMod) - m) % ByteMod

SrcX == loadPixels(fs["I_O.bmp"])

SrcR == loadPixels(fs["I_M.bmp"])

\* I_O.bmp and I_M.bmp are pictures of equal size
EqualSize ==
    /\ ~SrcX.null /\ ~SrcR.null
    /\ SrcX.w = SrcR.w /\ SrcX.h = SrcR.h

\* the decoder ran all its steps and returned 0
DecFinished == dec.pc = "exit" /\ dec.code = 0 /\ dec.dataSize > 0

---------------------------------------------------------------------------
(* C4  Rotation round trip: for every byte v and every count k in 0..7,     *)
(* rotating right by k and then left by k (with rotateLeft or with the      *)
(* decoder's brotate_left), or left and then right, gives v back, and every *)
(* result is a byte.                                                        *)
C4_RotationRoundTrip ==
    /\ \A i \in 1 .. Len(prim.trail) : prim.trail[i] \in Byte
    /\ prim.ops \in {<<"rotateRight", "rotateLeft">>,
                     <<"rotateLeft", "rotateRight">>,
                     <<"rotateRight", "brotate_left">>,
                     <<"brotate_left", "rotateRight">>}
          => prim.v = prim.v0
    /\ (prim.k = 0 /\ Len(prim.ops) >= 1) => prim.v = prim.v0

\* 0x0F rotated right by 3 is 0xE1, and rotating 0xE1 left by 3 gives 0x0F
C4_Witness ==
    /\ prim.ops = <<"rotateRight", "rotateLeft">>
    /\ prim.v0 = 15 /\ prim.k = 3
    /\ prim.trail = <<225, 15>>

(* C5  XOR is self-inverse: for all bytes a and b, xor(xor(a,b),b) = a      *)
(* (bitwiseXOR and bxor), and applyXOR applied twice with the same key      *)
(* leaves every byte of a buffer of any size unchanged.                     *)
C5_XorSelfInverse ==
    /\ (prim.on /\ Len(prim.ops) = 2) => prim.v = prim.v0
    /\ (prim.on /\ Len(prim.ops) = 1) =>
          (prim.v \in Byte /\ (prim.v = prim.v0 <=> prim.k = 0))
    /\ (xbuf.on /\ xbuf.n = 2) => xbuf.data = xbuf.data0
    /\ (xbuf.on /\ xbuf.n = 1) =>
          /\ Len(xbuf.data) = Len(xbuf.data0)
          /\ \A i \in 1 .. Len(xbuf.data) :
                (xbuf.data[i] = xbuf.data0[i] <=> xbuf.key = 0)

\* 0x0F xor 0xAA = 0xA5, twice gives 0x0F back; a 3-byte buffer comes back too
C5_Witness ==
    \/ /\ prim.ops = <<"bitwiseXOR", "bxor">>
       /\ prim.v0 = 15 /\ prim.k = 170 /\ prim.trail = <<165, 15>>
    \/ /\ xbuf.on /\ xbuf.n = 2 /\ Len(xbuf.data) = 3 /\ xbuf.key = 170

\* a seed followed by integers that fit an int, the components non-negative
\* (values the unsigned int array holds as written)
C9_WellFormed(file) ==
    /\ file.kind = "txt"
    /\ Len(file.toks) >= 1
    /\ \A i \in 1 .. Len(file.toks) : file.toks[i].t = "int"
    /\ \A i \in 2 .. Len(file.toks) : file.toks[i].v >= 0

(* C9  Mask file parsing: for a file holding a seed followed by m          *)
(* integers, loadSeedMasking returns the seed, a triplet count of           *)
(* floor(m/3), exactly the first 3*floor(m/3) integers in file order, and   *)
(* drops the 1 or 2 integers of a trailing partial triplet without error.   *)
C9_MaskFileParsing ==
    (parse.on /\ parse.called # "" /\ C9_WellFormed(parse.file)) =>
        LET toks == parse.file.toks
            m == Len(toks) - 1
        IN /\ ~parse.out.null
           /\ parse.out.seed = toks[1].v
           /\ parse.out.n_pixels = m \div 3
           /\ Len(parse.out.S) = 3 * (m \div 3)
           /\ \A i \in 1 .. 3 * (m \div 3) : parse.out.S[i] = toks[i + 1].v

\* seed + 2 full triplets + 1 stray integer parses exactly 2 triplets
C9_Witness ==
    /\ parse.called = "decoder"
    /\ C9_WellFormed(parse.file)
    /\ Len(parse.file.toks) = 8
    /\ parse.out.n_pixels = 2
    /\ Len(parse.out.S) = 6

(* C10  Mask component range check: a file holding a component below 0 or   *)
(* above 255 is rejected, so no record with an out-of-range component is    *)
(* returned to the caller.                                                  *)
C10_ComponentsRangeChecked ==
    (parse.on /\ parse.called # "" /\ ~parse.out.null) =>
        \A i \in 1 .. Len(parse.out.S) : parse.out.S[i] \in Byte

(* C3  Encoder forward sequence: for X and R of equal size the encoder     *)
(* produces P1[i] = X[i] xor R[i], P2[i] = rotateRight(P1[i], 3) and        *)
(* P3[i] = P2[i] xor R[i] for every byte index, each stage computed from    *)
(* the whole saved output of the stage before it.                           *)
C3_EncoderForward ==
    (enc.pc \in {"step2", "step3", "mask", "exit"} /\ EqualSize) =>
        LET n == Len(SrcX.data)
            P1 == loadPixels(fs["P1.bmp"])
            P2 == loadPixels(fs["P2.bmp"])
            P3 == loadPixels(fs["P3.bmp"])
        IN /\ Len(enc.p1Data) > 0 =>
                 /\ enc.p1Data = [i \in 1 .. n |-> RefXor(SrcX.data[i], SrcR.data[i])]
                 /\ ~P1.null => (P1.data = enc.p1Data /\ P1.w = SrcX.w /\ P1.h = SrcX.h)
           /\ Len(enc.p2Data) > 0 =>
                 /\ ~P1.null
                 /\ enc.p2Data = [i \in 1 .. n |-> RefRotR3(P1.data[i])]
                 /\ ~P2.null => (P2.data = enc.p2Data /\ P2.w = SrcX.w /\ P2.h = SrcX.h)
           /\ Len(enc.p3Data) > 0 =>
                 /\ ~P2.null
                 /\ enc.p3Data = [i \in 1 .. n |-> RefXor(P2.data[i], SrcR.data[i])]
                 /\ ~P3.null => (P3.data = enc.p3Data /\ P3.w = SrcX.w /\ P3.h = SrcX.h)
           /\ (enc.pc = "exit" /\ enc.code = 0) => Len(enc.p3Data) = n

\* 2 x 2 picture, X all 0x00, R all 0x0F: P1 all 0x0F, P2 all 0xE1, P3 all 0xEE
C3_Witness ==
    /\ enc.pc = "exit" /\ enc.code = 0
    /\ EqualSize
    /\ SrcX.data = [i \in 1 .. 12 |-> 0]
    /\ SrcR.data = [i \in 1 .. 12 |-> 15]
    /\ enc.p1Data = [i \in 1 .. 12 |-> 15]
    /\ enc.p2Data = [i \in 1 .. 12 |-> 225]
    /\ enc.p3Data = [i \in 1 .. 12 |-> 238]
    /\ fs["P3.bmp"] # NoFile
    /\ loadPixels(fs["P3.bmp"]).data = [i \in 1 .. 12 |-> 238]

\* the record S at offset seed describes picture px under the decoder's mask:
\* S[k] is px[seed + k] + mask[k], modulo 256
ExactRecord(S, n, seed, px) ==
    /\ seed >= 0
    /\ seed + dec.totalMaskBytes <= Len(px)
    /\ n * 3 >= dec.totalMaskBytes
    /\ \A k \in 1 .. dec.totalMaskBytes :
          S[k] % ByteMod = (px[seed + k] + dec.mask[k]) % ByteMod

\* both records passed validation and describe the encoder's P1 and P2
ExactRun ==
    /\ DecFinished /\ dec.ok1 /\ dec.ok2
    /\ EqualSize
    /\ fs["P1.bmp"] # NoFile /\ fs["P2.bmp"] # NoFile
    /\ ExactRecord(dec.S1, dec.n1, dec.seed1, loadPixels(fs["P1.bmp"]).data)
    /\ ExactRecord(dec.S2, dec.n2, dec.seed2, loadPixels(fs["P2.bmp"]).data)

(* C1  Round trip: for X and R of equal size, encoding and then decoding    *)
(* with the same R and with mask records S1, S2 that pass validation and    *)
(* exactly describe the patched regions gives back X at every byte index.   *)
C1_RoundTrip ==
    ExactRun =>
        /\ dec.img = SrcX.data
        /\ fs["I_D.bmp"] # NoFile => loadPixels(fs["I_D.bmp"]) = SrcX

\* a gradient picture went through both restorations at offset 3 and was saved
C1_Witness ==
    /\ ExactRun
    /\ dec.seed1 = 3 /\ dec.seed2 = 3
    /\ SrcX.data[2] # SrcX.data[1]
    /\ \E k \in 1 .. 3 : dec.S1[k] < dec.mask[k]
    /\ fs["I_D.bmp"] # NoFile
    /\ loadPixels(fs["I_D.bmp"]).data = SrcX.data

(* C2  Decoding with no mask records: for X and R of equal size, decoding   *)
(* P3 = encode(X, R) with the same R and records of zero triplets           *)
(* (n1 = n2 = 0, M non-empty) yields X; P3 all 0xEE with R all 0x0F decodes *)
(* to the all-zero buffer.                                                  *)
C2_DecodeWithoutRecords ==
    (DecFinished /\ EqualSize /\ dec.n1 = 0 /\ dec.n2 = 0 /\ dec.totalMaskBytes > 0) =>
        dec.img = SrcX.data

(* C6  Mask restoration subtracts modulo 256 and never clamps: for every    *)
(* recorded value S[k] (also above 255) and every mask byte M[k], the byte  *)
(* written to img[seed + k] is (S[k] - M[k]) mod 256.                       *)
C6_ModularSubtraction ==
    (unm.on /\ unm.called) =>
        \A k \in 1 .. unm.total :
            /\ unm.img[unm.seed + k] = RefSubMod(unm.S[k], unm.mask[k])
            /\ unm.img[unm.seed + k] \in Byte

\* S[k] = 0x02 and M[k] = 0xFF restore 0x03
C6_Witness ==
    /\ unm.on /\ unm.called /\ unm.total = 3
    /\ unm.S[2] = 2 /\ unm.mask[2] = 255
    /\ unm.img[unm.seed + 2] = 3

\* record i is out of the buffer or shorter than the mask
OutOfBounds(n, seed) ==
    \/ n * 3 < dec.totalMaskBytes
    \/ seed > dec.dataSize - dec.totalMaskBytes

(* C7  Boundary rejection: when a mask record has seed + patchLength >      *)
(* bufferLength (or fewer than patchLength recorded bytes), the decoder     *)
(* writes no region for that record, reports it as not valid, and the run   *)
(* still saves the output and returns 0.                                    *)
C7_BoundaryRejection ==
    (dec.pc \in {"exit", "ub"} /\ dec.dataSize > 0) =>
        /\ OutOfBounds(dec.n2, dec.seed2) =>
              /\ ~dec.ok2
              /\ \E i \in 1 .. Len(dec.report) : dec.report[i] = "S2 no valida"
              /\ dec.pc = "exit" /\ dec.code = 0
              /\ dec.events # <<>> /\ dec.events[Len(dec.events)] = "save"
        /\ OutOfBounds(dec.n1, dec.seed1) =>
              /\ ~dec.ok1
              /\ \E i \in 1 .. Len(dec.report) : dec.report[i] = "S1 no valida"
              /\ dec.pc = "exit" /\ dec.code = 0
              /\ dec.events # <<>> /\ dec.events[Len(dec.events)] = "save"

(* C8  Partial-failure tolerance: when a record fails validation only its   *)
(* region restoration is skipped: the whole-buffer rotateLeft(3) still runs *)
(* when S2 is rejected and the final whole-buffer XOR with R still runs     *)
(* when S1 is rejected.                                                     *)
C8_PartialFailureTolerance ==
    DecFinished =>
        /\ ~dec.ok2 => \E i \in 1 .. Len(dec.events) : dec.events[i] = "rotl"
        /\ ~dec.ok1 => Cardinality({i \in 1 .. Len(dec.events) : dec.events[i] = "xor"}) = 2

(* C11  Dimension mismatch: two pixel buffers combined byte-wise (X xor R    *)
(* and P2 xor R in the encoder, img xor R in the decoder) have equal         *)
(* width*height*3; when the two loaded buffers differ in size the run fails  *)
(* with a nonzero exit before the XOR loop reads a byte of either buffer.    *)
C11_DimensionMismatch ==
    /\ (~SrcX.null /\ ~SrcR.null /\ Len(SrcX.data) # Len(SrcR.data)) =>
          /\ enc.pc \in {"step1", "exit"}
          /\ enc.pc = "exit" => (enc.code # 0 /\ Len(enc.p1Data) = 0)
    /\ Len(dec.events) > 0 => dec.w * dec.h * 3 = dec.w2 * dec.h2 * 3

\* the region [seed, seed + totalMaskBytes) of record i of the decoder
InRegion(i, seed) == seed + 1 <= i /\ i <= seed + dec.totalMaskBytes

(* C15  Offset-arithmetic safety of mask restoration: for every int seed    *)
(* read from a mask file (negative ones, and ones whose sum with the patch   *)
(* length overflows) every write of desenmascarar targets an index inside    *)
(* the image and every read of S[k] and M[k] is inside those arrays; a       *)
(* record with seed < 0 or seed + patchLength > bufferLength never reaches   *)
(* desenmascarar.                                                            *)
C15_OffsetSafety ==
    /\ dec.ok2 =>
          /\ RegionInside(dec.seed2, dec.totalMaskBytes, dec.dataSize)
          /\ dec.totalMaskBytes <= Len(dec.S2) /\ dec.totalMaskBytes <= Len(dec.mask)
    /\ dec.ok1 =>
          /\ RegionInside(dec.seed1, dec.totalMaskBytes, dec.dataSize)
          /\ dec.totalMaskBytes <= Len(dec.S1) /\ dec.totalMaskBytes <= Len(dec.mask)
    /\ dec.pc # "ub"

\* the stages of a run in which both records pass validation
DecStages == <<"xor", "unmask2", "rotl", "unmask1", "xor", "save">>

IsPrefix(s, t) == Len(s) <= Len(t) /\ \A i \in 1 .. Len(s) : s[i] = t[i]

\* the picture the decoder loaded from P3.bmp
SrcP3 == loadPixels(fs["P3.bmp"]).data

(* C16  Strict stage ordering in the decoder: in every run in which both    *)
(* mask records pass validation the stages run once each, in the order XOR   *)
(* with R, restore from S2, rotateLeft(3), restore from S1, XOR with R,      *)
(* save; each works on the whole output of the stage before it.              *)
C16_StageOrder ==
    /\ (dec.ok2 /\ (dec.ok1 \/ dec.pc = "inv1")) => IsPrefix(dec.events, DecStages)
    /\ (dec.ok2 /\ dec.pc # "ub") =>
          \A i \in 1 .. dec.dataSize :
             ~InRegion(i, dec.seed2) => dec.unmasked2[i] = RefXor(SrcP3[i], dec.imRand[i])
    /\ (dec.ok2 /\ dec.ok1 /\ dec.pc # "ub") =>
          \A i \in 1 .. dec.dataSize :
             /\ ~InRegion(i, dec.seed1) => dec.unmasked1[i] = RefRotL3(dec.unmasked2[i])
             /\ dec.img[i] = RefXor(dec.unmasked1[i], dec.imRand[i])
    /\ (DecFinished /\ dec.ok1 /\ dec.ok2) => dec.events = DecStages

\* both records passed, the two regions differ, and all six stages ran
C16_Witness ==
    /\ DecFinished /\ dec.ok1 /\ dec.ok2
    /\ dec.seed1 = 3 /\ dec.seed2 = 0
    /\ dec.events = DecStages
    /\ dec.unmasked1 # dec.unmasked2

(* C17  Closed form of the decoder output when both records pass            *)
(* validation: byte i is (S1[i-seed1] - M[i-seed1]) mod 256 xor R[i] inside  *)
(* the S1 region; otherwise rotateLeft((S2[i-seed2] - M[i-seed2]) mod 256,   *)
(* 3) xor R[i] inside the S2 region; otherwise rotateLeft(P3[i] xor R[i],    *)
(* 3) xor R[i].  Where the regions overlap the S1 value takes precedence.    *)
C17_ClosedForm ==
    (DecFinished /\ dec.ok1 /\ dec.ok2) =>
        /\ Len(dec.img) = dec.dataSize
        /\ \A i \in 1 .. dec.dataSize :
              dec.img[i] =
                 IF InRegion(i, dec.seed1)
                 THEN RefXor(RefSubMod(dec.S1[i - dec.seed1], dec.mask[i - dec.seed1]),
                             dec.imRand[i])
                 ELSE IF InRegion(i, dec.seed2)
                 THEN RefXor(RefRotL3(RefSubMod(dec.S2[i - dec.seed2],
                                                dec.mask[i - dec.seed2])),
                             dec.imRand[i])
                 ELSE RefXor(RefRotL3(RefXor(SrcP3[i], dec.imRand[i])), dec.imRand[i])
        /\ fs["I_D.bmp"] # NoFile => loadPixels(fs["I_D.bmp"]).data = dec.img

\* the regions [1, 4) of S1 and [0, 3) of S2 overlap in a 2-pixel picture, which
\* also has a byte outside both
C17_Witness ==
    /\ DecFinished /\ dec.ok1 /\ dec.ok2
    /\ dec.seed1 = 1 /\ dec.seed2 = 0 /\ dec.totalMaskBytes = 3 /\ dec.dataSize = 6
    /\ dec.img[2] = RefXor(RefSubMod(dec.S1[1], dec.mask[1]), dec.imRand[2])
    /\ dec.img[2] # RefXor(RefRotL3(RefSubMod(dec.S2[2], dec.mask[2])), dec.imRand[2])
    /\ fs["I_D.bmp"] # NoFile

\* the buffers the encoder allocates when every step succeeds
EncBuffers ==
    {"ioData", "imData", "p1Data", "p1Loaded", "p2Data", "p2Loaded", "imReloaded",
     "p3Data", "mask"}

(* C13  Resource cleanup: on every path by which the encoder or decoder run *)
(* returns (a load failure at any step, a dimension mismatch, or normal      *)
(* completion) every buffer acquired so far has been released exactly once;  *)
(* no buffer is released twice and none is read or written after release.    *)
C13_ResourceCleanup ==
    /\ enc.pc # "off" =>
          /\ enc.heap.faults = {}
          /\ enc.heap.live \cap enc.heap.freed = {}
          /\ enc.pc = "exit" => enc.heap.live = {}
    /\ dec.pc # "off" =>
          /\ dec.heap.faults = {}
          /\ dec.heap.live \cap dec.heap.freed = {}
          /\ dec.pc = "exit" => dec.heap.live = {}

\* the decoder met a P3.bmp and an I_M.bmp of different dimensions and released
\* both, and the encoder went through all its steps and released its nine buffers
C13_Witness ==
    /\ dec.pc = "exit" /\ dec.code = 1
    /\ dec.heap = [live |-> {}, freed |-> {"img", "imRand"}, faults |-> {}]
    /\ enc.pc = "exit" /\ enc.code = 0
    /\ enc.heap = [live |-> {}, freed |-> EncBuffers, faults |-> {}]

(* C18  Frame of mask restoration: desenmascarar(img, mask, S, seed,        *)
(* totalBytes) with 0 <= seed changes only img[seed .. seed+totalBytes-1];    *)
(* every other byte of img and every element of mask and S is unchanged;      *)
(* when img, mask or S is null or totalBytes <= 0 nothing at all is changed.  *)
C18_Frame ==
    (unm.on /\ unm.called /\ unm.seed >= 0) =>
        /\ Len(unm.img) = Len(unm.img0)
        /\ \A i \in 1 .. Len(unm.img0) :
              ~(unm.seed + 1 <= i /\ i <= unm.seed + unm.total) => unm.img[i] = unm.img0[i]
        /\ unm.mask = unm.mask0
        /\ unm.S = unm.S0
        /\ (unm.nulls # {} \/ unm.total <= 0) => unm.img = unm.img0

\* a call at offset 2 of a 6-byte picture rewrote bytes 2..4 and left 0, 1 and 5
C18_Witness ==
    /\ unm.on /\ unm.called /\ unm.nulls = {}
    /\ unm.seed = 2 /\ unm.total = 3
    /\ unm.img[1] = 10 /\ unm.img[2] = 20 /\ unm.img[6] = 60
    /\ unm.img[3] # 30 /\ unm.img[4] # 40 /\ unm.img[5] # 50

(* C19  The triplet count reported by loadSeedMasking is fixed by the file  *)
(* content alone: for every value the caller's n_pixels holds before the      *)
(* call the returned n_pixels is the number of complete triplets in the file  *)
(* and the returned array has exactly 3*n_pixels elements, all assigned from  *)
(* the file.                                                                  *)
C19_CountFromFile ==
    (parse.on /\ parse.called # "" /\ C9_WellFormed(parse.file)) =>
        LET toks == parse.file.toks
            m == Len(toks) - 1
        IN /\ parse.out.n_pixels = m \div 3
           /\ Len(parse.out.S) = 3 * parse.out.n_pixels
           /\ \A i \in 1 .. Len(parse.out.S) :
                 i + 1 <= Len(toks) /\ parse.out.S[i] = toks[i + 1].v

(* C12  Process exit code: every program entry point returns 0 only when   *)
(* all required buffers were loaded, and returns a nonzero code whenever a    *)
(* required pixel buffer fails to load or two paired buffers mismatch in      *)
(* dimensions.                                                                *)
C12_ExitCode ==
    /\ (demo.pc = "exit" /\ demo.prog = "main" /\ demo.code = 0) =>
          (demo.failed = {} /\ ~demo.mismatch)
    /\ (enc.pc = "exit" /\ enc.code = 0) => EqualSize
    /\ (dec.pc = "exit" /\ dec.code = 0) =>
          (dec.dataSize > 0 /\ dec.w = dec.w2 /\ dec.h = dec.h2)

\* the names in a sequence of operation names
Used(ops) == {ops[i] : i \in 1 .. Len(ops)}

(* C14  No reliance on lossy shifts: shiftLeft(v,k) = (v << k) & 0xFF and   *)
(* shiftRight(v,k) = (v >> k) & 0xFF; no pipeline that exports a transformed  *)
(* buffer or reverts mask values applies a shift as a step to be undone: the  *)
(* byte transform applied to the exported buffer is injective, and            *)
(* shiftRight is never used as the inverse of shiftLeft.                      *)
C14_NoLossyShifts ==
    (demo.pc # "off" /\ demo.prog = "bits") =>
        /\ \A i \in 1 .. Len(demo.pixelData) :
              demo.pixelData[i] = (RefXor(demo.pixelData0[i], XorKey) * 2) % ByteMod
        /\ \A t \in 1 .. Len(demo.printed1) : demo.printed1[t][3] \in 0 .. 127
        /\ demo.exported =>
              \A i, j \in 1 .. Len(demo.pixelData) :
                 demo.pixelData[i] = demo.pixelData[j] =>
                    demo.pixelData0[i] = demo.pixelData0[j]
        /\ demo.exported => Used(demo.stages) \cap {"shiftLeftOp", "shiftRightOp"} = {}
        /\ Used(demo.revert1) \cap {"shiftLeftOp", "shiftRightOp"} = {}
        /\ Used(demo.revert2) \cap {"shiftLeftOp", "shiftRightOp"} = {}

=============================================================================
